---- MODULE Spec2Model ----
(***************************************************************************)
(* Model of the Qualys host-detection pipeline:                            *)
(*   - the recursive pagination engine Session.getHostDetectionPostData    *)
(*     and its entry points GetHostDetections / GetTagDetections /         *)
(*     GetHostSpecificDetections (package qualys);                         *)
(*   - QsSession.Detections, its per-host fan-out and the seen-set;        *)
(*   - QsSession.pushDetectionsOnChannel and webAppFindingWrapper.Status;  *)
(*   - QsSession.KnowledgeBase and the scheduled path of ScanResults.      *)
(* Goroutines are processes with a program counter; an unbuffered channel  *)
(* operation is a rendezvous of one sender and one receiver.  Go strings   *)
(* that the code inspects are sequences of one-character strings.          *)
(***************************************************************************)
EXTENDS Integers, Sequences, FiniteSets, TLC

VARIABLES
    svc,        \* the remote service: host records it holds, page size, page count
    inv,        \* inv[r][k]: the k-th invocation of getHostDetectionPostData in run r
    pages,      \* pages[r]: outcome of each post issued so far in run r, in order
    api,        \* api[r]: the GetHostDetections / GetTagDetections call of run r
    cancelled,  \* ctx.Done() is closed
    hsd,        \* the GetHostSpecificDetections call
    rd,         \* a direct consumer of the channel an entry point returned
    ids,        \* Detections: the identifier list it was called with
    det,        \* Detections: its goroutine (position, tags, groupIDs, err, out)
    units,      \* Detections: the per-host goroutines scheduled so far
    seen,       \* seen[r]: processedDevVulns of run r
    emitted,    \* emitted[r][key]: events of run r received from Detections' out
    dret,       \* what "return out, err" of Detections handed to its caller
    pin,        \* selector partition: the identifier list
    pout,       \* selector partition: the lists computed from it
    sin,        \* webAppFindingWrapper: the wrapped finding
    sout,       \* webAppFindingWrapper: the value Status() returned
    push,       \* pushDetectionsOnChannel: arguments, position, events sent, result
    kb,         \* KnowledgeBase: its goroutine, the senders it spawned, channel out
    sr,         \* ScanResults: its goroutine, the inner Detections stream, channel out
    sc          \* Scans: its goroutine, the payloads, the map seen, channel out

engineVars == <<svc, inv, pages, api, cancelled>>
callerVars == <<hsd, rd>>
detVars == <<ids, det, units, seen, emitted, dret>>
fnVars == <<pin, pout, sin, sout>>
restVars == <<kb, sr, sc>>
vars == <<engineVars, callerVars, detVars, fnVars, push, restVars>>

(***************************************************************************)
(* Bounds of the model.                                                    *)
(***************************************************************************)
\* pagination engine driven directly (Spec): pages per run, records per page
MaxPages == 3
MaxHosts == 1
\* selectors handed to an entry point
MaxSel == 1
\* Detections (SpecDet): pages per run, records per page, findings per record
DetMaxPages == 2
DetMaxHosts == 1
DetMaxDets == 1
\* identifiers in a list given to the selector partition (SpecPartition)
MaxIds == 2
\* pushDetectionsOnChannel (SpecPush): hosts in the output, findings per host
PushMaxHosts == 2
PushMaxDets == 2
\* KnowledgeBase (SpecKB): vulnerabilities in the knowledge base
KBMaxVulns == 3
\* KnowledgeBase (SpecKB): a knowledge base of more than two batches
KBManyVulns == 101
\* ScanResults (SpecScan): events of the inner Detections stream
ScanMaxEvents == 3
\* hosts in the output ScanResults pushes
ScanMaxHosts == 1
\* Scans (SpecScans): payloads on the channel it reads
ScansMaxPayloads == 4

Runs == {"group", "tag"}
Sel == {"a"}
Devs == {"d1"}
Qids == {"q1", "q2"}

\* a Go slice of strings: the nil slice, or a slice holding items
Nil == [nil |-> TRUE, items |-> <<>>]
Slice(items) == [nil |-> FALSE, items |-> items]

\* sequences over S of length lo..hi
SeqsOf(S, lo, hi) == UNION {[1..n -> S] : n \in lo..hi}

\* argument lists handed to an entry point: nil, empty, or up to MaxSel selectors
ArgLists == {Nil} \cup {Slice(s) : s \in SeqsOf(Sel, 0, MaxSel)}

NoHost == [page |-> -1, idx |-> 0, dev |-> "", dets |-> <<>>]
\* the records the service holds: opaque ones, and ones with findings
PlainHosts == {[dev |-> "d1", dets |-> <<>>]}
DetHosts == {[dev |-> d, dets |-> s] : d \in Devs, s \in SeqsOf(Qids, 1, DetMaxDets)}

PageIdx == 0..(svc.depth - 1)
FwdIdx == 0..(svc.depth - 2)

IdleInv == [g |-> "none", hosts |-> <<>>, i |-> 1, f |-> "none", held |-> NoHost,
            err |-> FALSE, closed |-> FALSE]

(***************************************************************************)
(* strings.Index, strings.ToLower                                          *)
(***************************************************************************)
\* strings.Index(s, sub): offset of the first occurrence of sub in s, or -1
Index(s, sub) ==
    LET hits == {i \in 0..(Len(s) - Len(sub)) : SubSeq(s, i + 1, i + Len(sub)) = sub}
    IN  IF hits = {} THEN -1 ELSE CHOOSE i \in hits : \A j \in hits : i <= j

LowerOf ==
    "A" :> "a" @@ "B" :> "b" @@ "C" :> "c" @@ "D" :> "d" @@ "E" :> "e" @@ "F" :> "f"
    @@ "G" :> "g" @@ "H" :> "h" @@ "I" :> "i" @@ "J" :> "j" @@ "K" :> "k" @@ "L" :> "l"
    @@ "M" :> "m" @@ "N" :> "n" @@ "O" :> "o" @@ "P" :> "p" @@ "Q" :> "q" @@ "R" :> "r"
    @@ "S" :> "s" @@ "T" :> "t" @@ "U" :> "u" @@ "V" :> "v" @@ "W" :> "w" @@ "X" :> "x"
    @@ "Y" :> "y" @@ "Z" :> "z"

\* strings.ToLower on the letters the vocabulary uses
ToLower(s) == [i \in 1..Len(s) |-> IF s[i] \in DOMAIN LowerOf THEN LowerOf[s[i]] ELSE s[i]]

(***************************************************************************)
(* Detections, lines 74-83: the split of ids into tags and groupIDs        *)
(***************************************************************************)
tagPrefix == <<"t", "a", "g", "-">>

RECURSIVE PartitionFrom(_, _)
PartitionFrom(rest, acc) ==
    IF rest = <<>> THEN acc
    ELSE LET id == Head(rest)
             at == Index(id, tagPrefix)
         IN  PartitionFrom(Tail(rest),
                 IF at >= 0
                 THEN [acc EXCEPT !.tags = Append(@, SubSeq(id, at + Len(tagPrefix) + 1, Len(id)))]
                 ELSE [acc EXCEPT !.groupIDs = Append(@, id)])

Partition(list) == PartitionFrom(list, [tags |-> <<>>, groupIDs |-> <<>>])

(***************************************************************************)
(* webAppFindingWrapper.Status                                             *)
(***************************************************************************)
\* the values of package domain are opaque tokens; a status the switch leaves
\* alone is returned as the raw text
Vulnerable == "domain.Vulnerable"
Fixed == "domain.Fixed"
Informational == "domain.Informational"
DeadHost == "domain.DeadHost"

Canon(token) == [canon |-> token, raw |-> <<>>]
Raw(text) == [canon |-> "", raw |-> text]

info == "INFORMATION_GATHERED"

\* a plausible slip: the switch compares the status without lower-casing it
StatusExactCase(f) ==
    IF f.Type = info THEN Canon(Informational)
    ELSE CASE f.StatusVal = <<"n", "e", "w">> -> Canon(Vulnerable)
           [] f.StatusVal = <<"a", "c", "t", "i", "v", "e">> -> Canon(Vulnerable)
           [] f.StatusVal = <<"r", "e", "o", "p", "e", "n", "e", "d">> -> Canon(Vulnerable)
           [] f.StatusVal = <<"f", "i", "x", "e", "d">> -> Canon(Fixed)
           [] f.StatusVal = <<"p", "r", "o", "t", "e", "c", "t", "e", "d">> -> Canon(Vulnerable)
           [] OTHER -> Raw(f.StatusVal)

Status(f) ==
    IF f.Type = info THEN Canon(Informational)
    ELSE LET low == ToLower(f.StatusVal)
         IN  CASE low = <<"n", "e", "w">> -> Canon(Vulnerable)
               [] low = <<"a", "c", "t", "i", "v", "e">> -> Canon(Vulnerable)
               [] low = <<"r", "e", "o", "p", "e", "n", "e", "d">> -> Canon(Vulnerable)
               [] low = <<"f", "i", "x", "e", "d">> -> Canon(Fixed)
               [] low = <<"p", "r", "o", "t", "e", "c", "t", "e", "d">> -> Canon(Vulnerable)
               [] OTHER -> Raw(f.StatusVal)

(***************************************************************************)
(* session.post: one network call.  It fails, or it returns a page: a list *)
(* of host records and, unless the result set is exhausted, a Warning      *)
(* carrying the URL of the next page.                                      *)
(***************************************************************************)
HostsOf(k, f) ==
    [i \in 1..Len(f) |-> [page |-> k, idx |-> i, dev |-> f[i].dev, dets |-> f[i].dets]]

PostResults(k) ==
    {[ok |-> FALSE, hosts |-> <<>>, warning |-> FALSE]}
    \cup {[ok |-> TRUE, hosts |-> HostsOf(k, f), warning |-> w] :
            f \in SeqsOf(svc.hosts, 0, svc.limit),
            w \in (IF k + 1 < svc.depth THEN BOOLEAN ELSE {FALSE})}

\* a plausible slip: the range loop stops one host early
SendPcDropLast(hosts, i) == IF i < Len(hosts) THEN "send" ELSE "wait"

\* position of the page goroutine after sending i-1 of its hosts
SendPc(hosts, i) == IF i <= Len(hosts) THEN "send" ELSE "wait"

\* a plausible slip: an empty page is taken as the end of the result set
FollowNonEmpty(res) == IF res.warning /\ Len(res.hosts) > 0 THEN "call" ELSE "none"

\* if output.Warning != nil { recursiveWG.Add(1); go func() {...}() }
Follow(res) == IF res.warning THEN "call" ELSE "none"

\* the entry points' check: groups != nil && len(groups) > 0
NonEmpty(list) == ~list.nil /\ Len(list.items) > 0

\* "return out, totalHosts, err" reads the named result err without any
\* synchronisation with the goroutines that assign it: it sees what they have
\* written by the time it runs
RacyErr(r, k) == inv[r][k].err

(***************************************************************************)
(* getHostDetectionPostData, invocation k of run r.                        *)
(***************************************************************************)
\* make(chan QHost); go func(out) {...}: the page goroutine is started
Spawned(r, k) == [inv EXCEPT ![r][k].g = "post"]

\* inv after the post of invocation k failed: err is assigned, the error is
\* logged, and the goroutine is about to run its deferred close(out)
Failed(r, k) == [inv EXCEPT ![r][k].err = TRUE, ![r][k].g = "wait"]

\* the page goroutine: session.post, then on success the optional start of the
\* forwarder for the next page; on failure the log line, with the deferred
\* close(out) still to run
Post(r, k) ==
    /\ inv[r][k].g = "post"
    /\ \E res \in PostResults(k) :
         /\ pages' = [pages EXCEPT ![r] =
                         Append(@, [ok |-> res.ok, n |-> Len(res.hosts), warning |-> res.warning])]
         /\ inv' = IF res.ok
                   THEN [inv EXCEPT ![r][k].g = SendPc(res.hosts, 1),
                                    ![r][k].hosts = IF SendPc(res.hosts, 1) = "send"
                                                    THEN res.hosts ELSE <<>>,
                                    ![r][k].f = Follow(res)]
                   ELSE Failed(r, k)
    /\ UNCHANGED <<restVars, svc, api, cancelled, callerVars, detVars, fnVars, push>>

\* the forwarder: session.getHostDetectionPostData(output.Warning.URL, fields)
FwdCall(r, k) ==
    /\ inv[r][k].f = "call"
    /\ inv' = [Spawned(r, k + 1) EXCEPT ![r][k].f = "ret"]
    /\ UNCHANGED <<restVars, svc, pages, api, cancelled, callerVars, detVars, fnVars, push>>

\* the forwarder: recursiveOut, extrahosts, err = ...; if err == nil { for ... }
FwdRet(r, k) ==
    /\ inv[r][k].f = "ret"
    /\ inv' = [inv EXCEPT ![r][k].err = RacyErr(r, k + 1),
                          ![r][k].f = IF RacyErr(r, k + 1) THEN "done" ELSE "recv"]
    /\ UNCHANGED <<restVars, svc, pages, api, cancelled, callerVars, detVars, fnVars, push>>

\* the senders blocked on channel out of invocation k, with the host each offers
Offers(r, k) ==
    (IF inv[r][k].g = "send"
     THEN {<<"G", inv[r][k].hosts[inv[r][k].i]>>} ELSE {})
    \cup (IF inv[r][k].f = "fwd" THEN {<<"F", inv[r][k].held>>} ELSE {})

\* inv after the sender who of invocation k completed its send
Sent(r, k, who) ==
    IF who = "G"
    THEN LET pc == SendPc(inv[r][k].hosts, inv[r][k].i + 1)
         IN  [inv EXCEPT ![r][k].g = pc,
                         ![r][k].i = IF pc = "send" THEN @ + 1 ELSE 1,
                         ![r][k].hosts = IF pc = "send" THEN @ ELSE <<>>]
    ELSE [inv EXCEPT ![r][k].f = "recv", ![r][k].held = NoHost]

\* the forwarder of invocation k receives a host from recursiveOut
FwdRecv(r, k) ==
    /\ inv[r][k].f = "recv"
    /\ \E o \in Offers(r, k + 1) :
         inv' = [Sent(r, k + 1, o[1]) EXCEPT ![r][k].f = "fwd", ![r][k].held = o[2]]
    /\ UNCHANGED <<restVars, svc, pages, api, cancelled, callerVars, detVars, fnVars, push>>

\* the forwarder of invocation k finds recursiveOut closed: break, recursiveWG.Done()
FwdEnd(r, k) ==
    /\ inv[r][k].f = "recv"
    /\ inv[r][k + 1].closed
    /\ inv' = [inv EXCEPT ![r][k].f = "done"]
    /\ UNCHANGED <<restVars, svc, pages, api, cancelled, callerVars, detVars, fnVars, push>>

\* the page goroutine: recursiveWG.Wait() returns, then the deferred close(out)
Close(r, k) ==
    /\ inv[r][k].g = "wait"
    /\ inv[r][k].f \in {"none", "done"}
    /\ inv' = [inv EXCEPT ![r][k].g = "done", ![r][k].closed = TRUE]
    /\ UNCHANGED <<restVars, svc, pages, api, cancelled, callerVars, detVars, fnVars, push>>

(***************************************************************************)
(* GetHostDetections (run "group") and GetTagDetections (run "tag").       *)
(***************************************************************************)
\* the entry point up to the go statement of getHostDetectionPostData, or to
\* its return when the list is rejected
ApiEnter(r, list) ==
    /\ api[r].pc = "idle"
    /\ IF NonEmpty(list)
       THEN /\ api' = [api EXCEPT ![r].pc = "called", ![r].arg = list]
            /\ inv' = Spawned(r, 0)
       ELSE /\ api' = [api EXCEPT ![r].pc = "returned", ![r].arg = list,
                                  ![r].err = TRUE, ![r].out = FALSE]
            /\ inv' = inv

\* out, _, err = session.getHostDetectionPostData(...); return out, err
ApiReturn(r) ==
    /\ api[r].pc = "called"
    /\ api' = [api EXCEPT ![r].pc = "returned", ![r].err = RacyErr(r, 0), ![r].out = TRUE]

(***************************************************************************)
(* GetHostSpecificDetections: one synchronous post, no pagination.         *)
(***************************************************************************)
\* what the call with address list ip returns when its post, if any, ends ok
HostSpecificResult(ip, ok) ==
    IF NonEmpty(ip)
    THEN [pc |-> "returned", arg |-> ip, posts |-> 1, err |-> ~ok, out |-> TRUE]
    ELSE [pc |-> "returned", arg |-> ip, posts |-> 0, err |-> FALSE, out |-> FALSE]

\* the owner of the context cancels it
Cancel ==
    /\ ~cancelled
    /\ cancelled' = TRUE
    /\ UNCHANGED <<restVars, svc, inv, pages, api, callerVars, detVars, fnVars, push>>

(***************************************************************************)
(* A caller of the entry points that consumes the returned channel the way *)
(* the callers in the repository do: it reads only when the returned error *)
(* is nil, and it leaves its receive loop when the context is cancelled.   *)
(***************************************************************************)
NoCallYet == hsd.pc = "idle" /\ \A r \in Runs : api[r].pc = "idle"

CallGetHostDetections ==
    /\ NoCallYet
    /\ \E groups \in ArgLists : ApiEnter("group", groups)
    /\ UNCHANGED <<restVars, svc, pages, cancelled, callerVars, detVars, fnVars, push>>

CallGetTagDetections ==
    /\ NoCallYet
    /\ \E tags \in ArgLists : ApiEnter("tag", tags)
    /\ UNCHANGED <<restVars, svc, pages, cancelled, callerVars, detVars, fnVars, push>>

CallGetHostSpecificDetections ==
    /\ NoCallYet
    /\ \E ip \in ArgLists, ok \in BOOLEAN : hsd' = HostSpecificResult(ip, ok)
    /\ UNCHANGED <<restVars, engineVars, rd, detVars, fnVars, push>>

CallerReturn(r) ==
    /\ ApiReturn(r)
    /\ UNCHANGED <<restVars, svc, inv, pages, cancelled, callerVars, detVars, fnVars, push>>

Readable(r) == api[r].pc = "returned" /\ api[r].out /\ ~api[r].err

ReaderRecv(r) ==
    /\ Readable(r)
    /\ rd.state = "reading"
    /\ \E o \in Offers(r, 0) :
         /\ inv' = Sent(r, 0, o[1])
         /\ rd' = [rd EXCEPT !.got = Append(@, o[2])]
    /\ UNCHANGED <<restVars, svc, pages, api, cancelled, hsd, detVars, fnVars, push>>

ReaderEnd(r) ==
    /\ Readable(r)
    /\ rd.state = "reading"
    /\ inv[r][0].closed
    /\ rd' = [rd EXCEPT !.state = "closed"]
    /\ UNCHANGED <<restVars, engineVars, hsd, detVars, fnVars, push>>

ReaderStop ==
    /\ cancelled
    /\ rd.state = "reading"
    /\ \E r \in Runs : Readable(r)
    /\ rd' = [rd EXCEPT !.state = "stopped"]
    /\ UNCHANGED <<restVars, engineVars, hsd, detVars, fnVars, push>>

(***************************************************************************)
(* QsSession.Detections: the goroutine that splits the identifiers, runs   *)
(* the group-ID sub-pipeline and then the tag sub-pipeline, and closes out.*)
(***************************************************************************)
Keys == Devs \X Qids

\* identifier lists Detections is called with
DetIdLists ==
    { <<>>, <<<<"a", "g", "1">>>>, <<<<"t", "a", "g", "-", "p">>>>,
      <<<<"a", "g", "1">>, <<"t", "a", "g", "-", "p">>>>, <<<<"t", "a", "g", "-", "p">>, <<"a", "g", "1">>>> }

\* the selector list of a sub-pipeline
ListOf(r) == IF r = "group" THEN det.groupIDs ELSE det.tags

\* where the goroutine continues when sub-pipeline r is over
After(r) ==
    IF r = "group" THEN [det EXCEPT !.pc = "begin", !.run = "tag"]
    ELSE [det EXCEPT !.pc = "close"]

\* a plausible slip: a fresh processedDevVulns for every host
MapPerHost(r, h) == <<r, h.page, h.idx>>

\* a plausible slip: one processedDevVulns made before both blocks
MapShared(r, h) == <<"group", -1, 0>>

\* the map a per-host goroutine is handed: the one made for its sub-pipeline
MapFor(r, h) == <<r, -1, 0>>

NewUnit(r, h) ==
    [run |-> r, page |-> h.page, idx |-> h.idx, dev |-> h.dev, dets |-> h.dets,
     map |-> MapFor(r, h), j |-> 1, pc |-> "test"]

DoneUnit(u) ==
    [run |-> u.run, page |-> u.page, idx |-> u.idx, dev |-> "", dets |-> <<>>,
     map |-> u.map, j |-> 0, pc |-> "done"]

\* lines 74-83
DetPartition ==
    /\ det.pc = "partition"
    /\ det' = [det EXCEPT !.pc = "begin", !.run = "group",
                          !.tags = Partition(ids).tags,
                          !.groupIDs = Partition(ids).groupIDs]
    /\ UNCHANGED <<restVars, engineVars, callerVars, ids, units, seen, emitted, dret, fnVars, push>>

\* if len(groupIDs) > 0 { ... GetHostDetections(groupIDs, ...) up to its go statement
DetBegin ==
    /\ det.pc = "begin"
    /\ IF Len(ListOf(det.run)) > 0
       THEN /\ ApiEnter(det.run, Slice(ListOf(det.run)))
            /\ det' = [det EXCEPT !.pc = "ret"]
       ELSE /\ det' = After(det.run)
            /\ UNCHANGED <<restVars, api, inv>>
    /\ UNCHANGED <<restVars, svc, pages, cancelled, callerVars, ids, units, seen, emitted, dret,
                   fnVars, push>>

\* a plausible slip: the goroutine returns when a sub-pipeline's call failed
AfterErrorReturns(r) == [det EXCEPT !.pc = "close", !.err = TRUE]

\* the else branch of a sub-pipeline: the error is logged and the goroutine
\* goes on with what follows the block
AfterError(r) == [After(r) EXCEPT !.err = TRUE]

\* hosts, err = GetHostDetections(...); if err == nil { ... } else { log }
DetRet ==
    /\ det.pc = "ret"
    /\ ApiReturn(det.run)
    /\ det' = IF RacyErr(det.run, 0)
              THEN AfterError(det.run)
              ELSE [det EXCEPT !.err = FALSE, !.pc = "loop"]
    /\ UNCHANGED <<restVars, svc, inv, pages, cancelled, callerVars, ids, units, seen, emitted, dret,
                   fnVars, push>>

\* select: case h, ok := <-hosts with ok: wg.Add(1); go func(h) {...}(h)
DetRecv ==
    /\ det.pc = "loop"
    /\ \E o \in Offers(det.run, 0) :
         /\ inv' = Sent(det.run, 0, o[1])
         /\ units' = units \cup {NewUnit(det.run, o[2])}
    /\ UNCHANGED <<restVars, svc, pages, api, cancelled, callerVars, ids, det, seen, emitted, dret,
                   fnVars, push>>

\* select: case h, ok := <-hosts with !ok: return
DetEnd ==
    /\ det.pc = "loop"
    /\ inv[det.run][0].closed
    /\ det' = [det EXCEPT !.pc = "wait"]
    /\ UNCHANGED <<restVars, engineVars, callerVars, ids, units, seen, emitted, dret, fnVars, push>>

\* select: case <-ctx.Done(): return
DetCancelled ==
    /\ det.pc = "loop"
    /\ cancelled
    /\ det' = [det EXCEPT !.pc = "wait"]
    /\ UNCHANGED <<restVars, engineVars, callerVars, ids, units, seen, emitted, dret, fnVars, push>>

\* a plausible slip: the join is skipped when the loop was left on ctx.Done()
WgWaitUnlessCancelled(r) ==
    cancelled \/ \A u \in units : u.run = r => u.pc \in {"done", "panicked"}

\* a plausible slip: the loop is not followed by wg.Wait()
WgWaitSkipped(r) == TRUE

\* wg.Wait() of sub-pipeline r can return: every per-host goroutine it added
\* has run its deferred wg.Done()
WgWait(r) == \A u \in units : u.run = r => u.pc \in {"done", "panicked"}

\* wg.Wait() returns
DetWait ==
    /\ det.pc = "wait"
    /\ WgWait(det.run)
    /\ det' = After(det.run)
    /\ UNCHANGED <<restVars, engineVars, callerVars, ids, units, seen, emitted, dret, fnVars, push>>

\* the deferred close(out)
DetClose ==
    /\ det.pc = "close"
    /\ det' = [det EXCEPT !.pc = "done", !.closed = TRUE]
    /\ UNCHANGED <<restVars, engineVars, callerVars, ids, units, seen, emitted, dret, fnVars, push>>

\* "return out, err" of Detections, which runs while the goroutine assigns err
DetReturn ==
    /\ dret.pc = "pending"
    /\ dret' = [pc |-> "returned", err |-> det.err]
    /\ UNCHANGED <<restVars, engineVars, callerVars, ids, det, units, seen, emitted, fnVars, push>>

(***************************************************************************)
(* pushCombosForHost, the body of a per-host goroutine.  Its source is not *)
(* among the files; it is modelled from the design: for each finding the   *)
(* key is tested and set in the shared map in one step under the mutex, a  *)
(* key already present is dropped, and the send on out races ctx.Done().   *)
(***************************************************************************)
UnitKey(u) == <<u.dev, u.dets[u.j]>>

UnitAdvance(u) ==
    IF u.j + 1 <= Len(u.dets) THEN [u EXCEPT !.j = @ + 1, !.pc = "test"] ELSE DoneUnit(u)

UnitTest(u) ==
    /\ u.pc = "test"
    /\ IF u.j > Len(u.dets)
       THEN /\ units' = (units \ {u}) \cup {DoneUnit(u)}
            /\ seen' = seen
       ELSE IF <<u.map, UnitKey(u)>> \in seen
       THEN /\ units' = (units \ {u}) \cup {UnitAdvance(u)}
            /\ seen' = seen
       ELSE /\ units' = (units \ {u}) \cup {[u EXCEPT !.pc = "emit"]}
            /\ seen' = seen \cup {<<u.map, UnitKey(u)>>}
    /\ UNCHANGED <<restVars, engineVars, callerVars, ids, det, emitted, dret, fnVars, push>>

UnitEmit(u) ==
    /\ u.pc = "emit"
    /\ ~det.closed
    /\ units' = (units \ {u}) \cup {UnitAdvance(u)}
    /\ emitted' = [emitted EXCEPT ![u.run][UnitKey(u)] = @ + 1]
    /\ UNCHANGED <<restVars, engineVars, callerVars, ids, det, seen, dret, fnVars, push>>

UnitCancelled(u) ==
    /\ u.pc = "emit"
    /\ cancelled
    /\ units' = (units \ {u}) \cup {DoneUnit(u)}
    /\ UNCHANGED <<restVars, engineVars, callerVars, ids, det, seen, emitted, dret, fnVars, push>>

\* a plausible slip: wg.Done() is called at the end of the body instead of being
\* deferred, so a unit that panics never signals the wait group
PanickedNoDone(u) == [DoneUnit(u) EXCEPT !.pc = "lost"]

\* a per-host goroutine after a panic in its body: the deferred wg.Done() has
\* run, and the deferred handleRoutinePanic (not among the source files; by the
\* design it recovers the panic and logs it) has ended the goroutine
PanickedUnit(u) == [DoneUnit(u) EXCEPT !.pc = "panicked"]

\* the expansion of finding j of the host faults (a malformed finding), before
\* its key reaches the shared map
UnitPanic(u) ==
    /\ u.pc = "test"
    /\ u.j <= Len(u.dets)
    /\ units' = (units \ {u}) \cup {PanickedUnit(u)}
    /\ UNCHANGED <<restVars, engineVars, callerVars, ids, det, seen, emitted, dret, fnVars, push>>

(***************************************************************************)
(* QsSession.pushDetectionsOnChannel                                       *)
(***************************************************************************)
IPs == {"ip1", "ip2"}
DeadIPs == {"ip1"}
Proofs == {"", "p"}
PushStatuses == {"Fixed", "Active"}

\* arguments: hosts of the output, each with the raw statuses of its findings,
\* and the dead-host proof map
PushHostPool == {[ip |-> a, dets |-> s] : a \in IPs, s \in SeqsOf(PushStatuses, 0, PushMaxDets)}
DeadMaps == UNION {[D -> Proofs] : D \in SUBSET DeadIPs}

\* deadHostIPToProof[h.IPAddress]: the zero value "" when the key is absent
Lookup(dead, ip) == IF ip \in DOMAIN dead THEN dead[ip] ELSE ""

\* lines 292-298 and the event built at 303-311, for finding j of host number hi
Expand(hi, host, j, dead) ==
    LET deadHostProof == Lookup(dead, host.ip)
    IN  IF deadHostProof # ""
        THEN [hi |-> hi, ip |-> host.ip, qid |-> j, status |-> DeadHost, proof |-> deadHostProof]
        ELSE IF host.dets[j] = "Fixed"
        THEN [hi |-> hi, ip |-> host.ip, qid |-> j, status |-> Fixed, proof |-> "own"]
        ELSE [hi |-> hi, ip |-> host.ip, qid |-> j, status |-> host.dets[j], proof |-> "own"]

\* the loops "for _, h := range output.Hosts { for _, d := range h.Detections":
\* the first finding at or after finding d of host h, or h past the last host
RECURSIVE PushPos(_, _, _)
\* a plausible slip: a host without findings ends the outer loop
PushPosStopAtEmpty(hosts, h, d) ==
    IF h > Len(hosts) THEN [h |-> h, d |-> 1]
    ELSE IF d <= Len(hosts[h].dets) THEN [h |-> h, d |-> d]
    ELSE IF Len(hosts[h].dets) = 0 THEN [h |-> Len(hosts) + 1, d |-> 1]
    ELSE PushPos(hosts, h + 1, 1)

PushPos(hosts, h, d) ==
    IF h > Len(hosts) THEN [h |-> h, d |-> 1]
    ELSE IF d <= Len(hosts[h].dets) THEN [h |-> h, d |-> d]
    ELSE PushPos(hosts, h + 1, 1)

PushAt == PushPos(push.hosts, push.h, push.d)

\* select: case out <- &hostDetectionCombo{...}
PushSend ==
    /\ push.pc = "run"
    /\ PushAt.h <= Len(push.hosts)
    /\ push' = [push EXCEPT !.sent = Append(@, Expand(PushAt.h, push.hosts[PushAt.h],
                                                       PushAt.d, push.dead)),
                            !.h = PushAt.h, !.d = PushAt.d + 1]
    /\ UNCHANGED <<restVars, engineVars, callerVars, detVars, fnVars>>

\* select: case <-ctx.Done(): return true
PushCancelled ==
    /\ push.pc = "run"
    /\ PushAt.h <= Len(push.hosts)
    /\ cancelled
    /\ push' = [push EXCEPT !.pc = "returned", !.ret = TRUE]
    /\ UNCHANGED <<restVars, engineVars, callerVars, detVars, fnVars>>

\* return false
PushReturn ==
    /\ push.pc = "run"
    /\ PushAt.h > Len(push.hosts)
    /\ push' = [push EXCEPT !.pc = "returned", !.ret = FALSE]
    /\ UNCHANGED <<restVars, engineVars, callerVars, detVars, fnVars>>

(***************************************************************************)
(* QsSession.KnowledgeBase: a goroutine that loads the knowledge base and  *)
(* starts one sender goroutine per vulnerability; every sender offers its  *)
(* vulnerability to the buffered channel out or gives up on ctx.Done().    *)
(* The senders differ only in the value they carry: they are counted.      *)
(***************************************************************************)
\* make(chan domain.Vulnerability, 50)
OutCap == 50
\* if count%50 == 0 { wg.Wait() }
BatchSize == 50

\* len(session.vulnerabilities) after the load: a few, or more than two batches
KBSizes == (0..KBMaxVulns) \cup {KBManyVulns}

\* a plausible slip: the batch is one sender too long
MustJoinOffByOne(count) == count % (BatchSize + 1) = 0

\* if count%50 == 0: the dispatch loop calls wg.Wait() before it spawns
MustJoin(count) == count % BatchSize = 0

\* loadAndCacheQualysKB: it fails, or it leaves n vulnerabilities in the session
KBLoad ==
    /\ kb.pc = "load"
    /\ \/ \E n \in KBSizes : kb' = [kb EXCEPT !.pc = "loop", !.n = n]
       \/ kb' = [kb EXCEPT !.pc = "close"]
    /\ UNCHANGED <<engineVars, callerVars, detVars, fnVars, push, sr, sc>>

\* the dispatch loop: select takes default, count++
KBSelect ==
    /\ kb.pc = "loop"
    /\ kb.index < kb.n
    /\ ~cancelled
    /\ kb' = [kb EXCEPT !.pc = "batch", !.count = @ + 1]
    /\ UNCHANGED <<engineVars, callerVars, detVars, fnVars, push, sr, sc>>

\* the dispatch loop: the wg.Wait() of every fiftieth round, then wg.Add(1)
\* and the go statement of the sender
KBSpawn ==
    /\ kb.pc = "batch"
    /\ MustJoin(kb.count) => kb.pending = 0
    /\ kb' = [kb EXCEPT !.pc = "loop", !.index = @ + 1, !.pending = @ + 1]
    /\ UNCHANGED <<engineVars, callerVars, detVars, fnVars, push, sr, sc>>

\* the dispatch loop: case <-ctx.Done(): return
KBCancelled ==
    /\ kb.pc = "loop"
    /\ kb.index < kb.n
    /\ cancelled
    /\ kb' = [kb EXCEPT !.pc = "close"]
    /\ UNCHANGED <<engineVars, callerVars, detVars, fnVars, push, sr, sc>>

\* the range loop is over and the final wg.Wait() returns
KBWait ==
    /\ kb.pc = "loop"
    /\ kb.index = kb.n
    /\ kb.pending = 0
    /\ kb' = [kb EXCEPT !.pc = "close"]
    /\ UNCHANGED <<engineVars, callerVars, detVars, fnVars, push, sr, sc>>

\* the deferred close(out)
KBClose ==
    /\ kb.pc = "close"
    /\ kb' = [kb EXCEPT !.pc = "done", !.closed = TRUE]
    /\ UNCHANGED <<engineVars, callerVars, detVars, fnVars, push, sr, sc>>

\* a sender: case out <- &vulnerabilityInfo{v: v}, with room in the buffer
SenderSend ==
    /\ kb.pending > 0
    /\ ~kb.closed
    /\ kb.buf < OutCap
    /\ kb' = [kb EXCEPT !.pending = @ - 1, !.buf = @ + 1]
    /\ UNCHANGED <<engineVars, callerVars, detVars, fnVars, push, sr, sc>>

\* a sender: case <-ctx.Done(): return
SenderCancelled ==
    /\ kb.pending > 0
    /\ cancelled
    /\ kb' = [kb EXCEPT !.pending = @ - 1]
    /\ UNCHANGED <<engineVars, callerVars, detVars, fnVars, push, sr, sc>>

\* a sender whose select takes the send case when out is closed: the send
\* panics, the deferred wg.Done() and handleRoutinePanic run
SenderLate ==
    /\ kb.pending > 0
    /\ kb.closed
    /\ kb' = [kb EXCEPT !.pending = @ - 1, !.late = TRUE]
    /\ UNCHANGED <<engineVars, callerVars, detVars, fnVars, push, sr, sc>>

\* the consumer of the returned channel takes a buffered vulnerability
KBRecv ==
    /\ kb.buf > 0
    /\ kb' = [kb EXCEPT !.buf = @ - 1]
    /\ UNCHANGED <<engineVars, callerVars, detVars, fnVars, push, sr, sc>>

(***************************************************************************)
(* QsSession.ScanResults.  For the payload of a scheduled scan the          *)
(* goroutine decodes the payload, calls Detections with the group IDs and  *)
(* forwards the events of the stream Detections returned to its own out.   *)
(* The inner stream is what Detections provides: a number of events, then  *)
(* the close of its channel (earlier when the context is cancelled).       *)
(* For the payload of a scan that is not scheduled it looks the scan up,   *)
(* loads the host detections and the dead hosts, starts a goroutine that   *)
(* offers the dead hosts on deadIPToProof and calls                        *)
(* pushDetectionsOnChannel.  sr.dcloses counts the executions of           *)
(* close(deadIPToProof).                                                   *)
(***************************************************************************)
Payloads == {"malformed", "scheduled, no group", "scheduled, group",
             "scan, no id", "scan, id"}

\* the outputs GetHostSpecificDetections may hand to pushDetectionsOnChannel
ScanOutputs == SeqsOf(PushHostPool, 0, ScanMaxHosts)

\* needToClose = false and the go statement of the dead-host goroutine
DeadHostsStarted(dead) ==
    [sr EXCEPT !.pc = "push", !.needToClose = FALSE, !.dpc = "run",
               !.dleft = Cardinality(DOMAIN dead)]

\* the call session.pushDetectionsOnChannel(ctx, output, deadHostIPToProof, out)
PushCalled(hosts, dead) ==
    [hosts |-> hosts, dead |-> dead, h |-> 1, d |-> 1, pc |-> "run",
     ret |-> FALSE, sent |-> <<>>]

\* json.Unmarshal and the tests of Scheduled, GroupID and ScanID; then the
\* call of Detections, whose error result is whatever its racy return read,
\* or the calls of GetScanByReference, GetHostSpecificDetections and
\* getDeadHostsForScan, each of which may fail
ScanStart ==
    /\ sr.pc = "start"
    /\ CASE sr.payload = "scheduled, group" ->
              /\ \E err \in BOOLEAN, n \in 0..ScanMaxEvents :
                    sr' = IF err THEN [sr EXCEPT !.pc = "close"]
                          ELSE [sr EXCEPT !.pc = "loop", !.total = n, !.inner = n]
              /\ UNCHANGED push
         [] sr.payload = "scan, id" ->
              \E scanOk, outputOk, deadOk \in BOOLEAN :
                 IF scanOk /\ outputOk /\ deadOk
                 THEN \E hosts \in ScanOutputs, dead \in DeadMaps :
                         /\ sr' = DeadHostsStarted(dead)
                         /\ push' = PushCalled(hosts, dead)
                 ELSE /\ sr' = [sr EXCEPT !.pc = "close"]
                      /\ UNCHANGED push
         [] OTHER ->
              /\ sr' = [sr EXCEPT !.pc = "close"]
              /\ UNCHANGED push
    /\ UNCHANGED <<engineVars, callerVars, detVars, fnVars, kb, sc>>

\* pushDetectionsOnChannel has returned: return when it returned true, else
\* the deletion of the option profile and the end of the function
ScanPushed ==
    /\ sr.pc = "push"
    /\ push.pc = "returned"
    /\ sr' = [sr EXCEPT !.pc = "close"]
    /\ UNCHANGED <<engineVars, callerVars, detVars, fnVars, push, kb, sc>>

\* the dead-host goroutine: case deadIPToProof <- deadIPProofCombo{...},
\* taken by the consumer of deadIPToProof
DeadSend ==
    /\ sr.dpc = "run"
    /\ sr.dleft > 0
    /\ sr' = [sr EXCEPT !.dleft = @ - 1]
    /\ UNCHANGED <<engineVars, callerVars, detVars, fnVars, push, kb, sc>>

\* the dead-host goroutine: case <-ctx.Done(): return, and the deferred
\* close(deadIPToProof)
DeadCancelled ==
    /\ sr.dpc = "run"
    /\ sr.dleft > 0
    /\ cancelled
    /\ sr' = [sr EXCEPT !.dpc = "done", !.dcloses = @ + 1]
    /\ UNCHANGED <<engineVars, callerVars, detVars, fnVars, push, kb, sc>>

\* the dead-host goroutine: the range loop is over, and the deferred
\* close(deadIPToProof)
DeadEnd ==
    /\ sr.dpc = "run"
    /\ sr.dleft = 0
    /\ sr' = [sr EXCEPT !.dpc = "done", !.dcloses = @ + 1]
    /\ UNCHANGED <<engineVars, callerVars, detVars, fnVars, push, kb, sc>>

\* Detections closes its channel: after its last event was taken, or after
\* cancellation
InnerClose ==
    /\ sr.pc \in {"loop", "send", "broke"}
    /\ ~sr.innerClosed
    /\ sr.inner = 0 \/ cancelled
    /\ sr' = [sr EXCEPT !.innerClosed = TRUE]
    /\ UNCHANGED <<engineVars, callerVars, detVars, fnVars, push, kb, sc>>

\* case val, ok := <-detections with ok
ScanRecv ==
    /\ sr.pc = "loop"
    /\ ~sr.innerClosed
    /\ sr.inner > 0
    /\ sr' = [sr EXCEPT !.pc = "send", !.inner = @ - 1]
    /\ UNCHANGED <<engineVars, callerVars, detVars, fnVars, push, kb, sc>>

\* the inner select: case out <- val, taken by the consumer of out
ScanSend ==
    /\ sr.pc = "send"
    /\ sr' = [sr EXCEPT !.pc = "loop", !.fwd = @ + 1]
    /\ UNCHANGED <<engineVars, callerVars, detVars, fnVars, push, kb, sc>>

\* case val, ok := <-detections with !ok: break, which leaves the select
ScanRecvClosed ==
    /\ sr.pc = "loop"
    /\ sr.innerClosed
    /\ sr' = [sr EXCEPT !.pc = "broke"]
    /\ UNCHANGED <<engineVars, callerVars, detVars, fnVars, push, kb, sc>>

\* the statement after the select: the end of the body of for { ... }
ScanLoopAgain ==
    /\ sr.pc = "broke"
    /\ sr' = [sr EXCEPT !.pc = "loop"]
    /\ UNCHANGED <<engineVars, callerVars, detVars, fnVars, push, kb, sc>>

\* case <-ctx.Done(): return, in the outer or in the inner select
ScanCancelled ==
    /\ sr.pc \in {"loop", "send"}
    /\ cancelled
    /\ sr' = [sr EXCEPT !.pc = "close"]
    /\ UNCHANGED <<engineVars, callerVars, detVars, fnVars, push, kb, sc>>

\* the goroutine returns: the deferred close(deadIPToProof) if needToClose,
\* and the deferred close(out)
ScanClose ==
    /\ sr.pc = "close"
    /\ sr' = [sr EXCEPT !.pc = "done", !.closed = TRUE,
                        !.dcloses = IF sr.needToClose THEN @ + 1 ELSE @]
    /\ UNCHANGED <<engineVars, callerVars, detVars, fnVars, push, kb, sc>>

(***************************************************************************)
(* QsSession.Scans: a goroutine that reads payloads, decodes each into a   *)
(* scan, and offers on out the scans that carry a scan ID and, once per    *)
(* name, the running scheduled scan found for a payload without one.       *)
(* sc.hist records, for every payload taken, the payload and the result of *)
(* the lookups made for it ("no" when none was made); sc.out records the   *)
(* scans the consumer of out received, each with the index of its payload. *)
(***************************************************************************)
ScanNames == {"", "n1", "n2"}

\* a payload: whether json.Unmarshal accepts it, and, if so, whether the
\* decoded ScanID is non-empty and the decoded Name
Malformed == [ok |-> FALSE, id |-> FALSE, name |-> ""]
ScansPayloads ==
    {Malformed} \cup {[ok |-> TRUE, id |-> i, name |-> n] : i \in BOOLEAN, n \in ScanNames}

\* GetScheduledScan fails ("error"), finds no running scan ("absent": a nil
\* result with a nil error) or finds one; then GetAssetTagTargetOfScheduledScan
\* fails ("tags error") or succeeds ("ok")
LookupResults == {"error", "absent", "tags error", "ok"}

NoScanHeld == [index |-> 0, name |-> "", id |-> "", scheduled |-> FALSE]

\* the scan as decoded from a payload that carries a scan ID
OwnScan(index, p) == [index |-> index, name |-> p.name, id |-> "own", scheduled |-> FALSE]

\* scan.ScanID = scheduledScan.Reference; scan.Scheduled = true
ScheduledScan(index, p) ==
    [index |-> index, name |-> p.name, id |-> "reference", scheduled |-> TRUE]

\* a plausible slip: the name is marked before the lookups are made
SeenBeforeLookup(names, name, res) == names \cup {name}

\* seen[scan.Name] = true, reached only when both lookups succeeded
SeenAfterLookup(names, name, res) == IF res = "ok" THEN names \cup {name} ELSE names

\* case payload, ok := <-payloads with ok, up to the select that offers the
\* scan on out or to the end of the round
ScansHandle ==
    /\ sc.pc = "loop"
    /\ Len(sc.queue) > 0
    /\ LET p == Head(sc.queue)
           index == Len(sc.hist) + 1
           took == [sc EXCEPT !.queue = Tail(@)]
       IN  IF ~p.ok
           THEN sc' = [took EXCEPT !.hist = Append(@, [p |-> p, looked |-> "no"])]
           ELSE IF p.id
           THEN sc' = [took EXCEPT !.hist = Append(@, [p |-> p, looked |-> "no"]),
                                   !.seen = @ \cup {p.name},
                                   !.held = OwnScan(index, p), !.pc = "send"]
           ELSE IF p.name \notin sc.seen /\ p.name # ""
           THEN \E res \in LookupResults :
                   sc' = [took EXCEPT !.hist = Append(@, [p |-> p, looked |-> res]),
                                      !.seen = SeenAfterLookup(@, p.name, res),
                                      !.held = IF res = "ok" THEN ScheduledScan(index, p)
                                               ELSE NoScanHeld,
                                      !.pc = IF res = "ok" THEN "send" ELSE "loop"]
           ELSE sc' = [took EXCEPT !.hist = Append(@, [p |-> p, looked |-> "no"])]
    /\ UNCHANGED <<engineVars, callerVars, detVars, fnVars, push, kb, sr>>

\* case out <- scan, taken by the consumer of out
ScansSend ==
    /\ sc.pc = "send"
    /\ sc' = [sc EXCEPT !.out = Append(@, sc.held), !.held = NoScanHeld, !.pc = "loop"]
    /\ UNCHANGED <<engineVars, callerVars, detVars, fnVars, push, kb, sr>>

\* case <-ctx.Done(): return, in the outer select or in one that offers a scan
ScansCancelled ==
    /\ sc.pc \in {"loop", "send"}
    /\ cancelled
    /\ sc' = [sc EXCEPT !.pc = "close"]
    /\ UNCHANGED <<engineVars, callerVars, detVars, fnVars, push, kb, sr>>

\* case payload, ok := <-payloads with !ok: return
ScansEnd ==
    /\ sc.pc = "loop"
    /\ Len(sc.queue) = 0
    /\ sc' = [sc EXCEPT !.pc = "close"]
    /\ UNCHANGED <<engineVars, callerVars, detVars, fnVars, push, kb, sr>>

\* the deferred close(out)
ScansClose ==
    /\ sc.pc = "close"
    /\ sc' = [sc EXCEPT !.pc = "done", !.closed = TRUE]
    /\ UNCHANGED <<engineVars, callerVars, detVars, fnVars, push, kb, sr>>

(***************************************************************************)
(* The selector partition and Status() applied to given inputs.            *)
(***************************************************************************)
IdPool ==
    { <<"a", "g", "1">>, <<"a", "g", "2">>,
      <<"t", "a", "g", "-", "p", "r", "o", "d">>, <<"t", "a", "g", "-">>,
      <<"t", "a", "g">>, <<"x", "t", "a", "g", "-", "y">>,
      <<"t", "a", "g", "-", "t", "a", "g", "-", "z">> }

RawStatuses ==
    { <<"N", "e", "w">>, <<"N", "E", "W">>,
      <<"n", "e", "w">>, <<"A", "c", "t", "i", "v", "e">>,
      <<"A", "C", "T", "I", "V", "E">>, <<"a", "c", "t", "i", "v", "e">>,
      <<"R", "e", "o", "p", "e", "n", "e", "d">>, <<"R", "E", "O", "P", "E", "N", "E", "D">>,
      <<"r", "e", "o", "p", "e", "n", "e", "d">>, <<"R", "e", "-", "O", "p", "e", "n", "e", "d">>,
      <<"R", "E", "-", "O", "P", "E", "N", "E", "D">>, <<"r", "e", "-", "o", "p", "e", "n", "e", "d">>,
      <<"F", "i", "x", "e", "d">>, <<"F", "I", "X", "E", "D">>,
      <<"f", "i", "x", "e", "d">>, <<"P", "r", "o", "t", "e", "c", "t", "e", "d">>,
      <<"P", "R", "O", "T", "E", "C", "T", "E", "D">>, <<"p", "r", "o", "t", "e", "c", "t", "e", "d">>,
      <<>>, <<"O", "t", "h", "e", "r">> }

Kinds == {"VULNERABILITY", "SENSITIVE_CONTENT", info}

SplitIds ==
    /\ ~pout.done
    /\ pout' = [done |-> TRUE, tags |-> Partition(pin).tags,
                groupIDs |-> Partition(pin).groupIDs]
    /\ UNCHANGED <<restVars, engineVars, callerVars, detVars, pin, sin, sout, push>>

CallStatus ==
    /\ ~sout.done
    /\ sout' = [done |-> TRUE, v |-> Status(sin)]
    /\ UNCHANGED <<restVars, engineVars, callerVars, detVars, pin, pout, sin, push>>

(***************************************************************************)
(* Specifications.                                                         *)
(***************************************************************************)
InitEngine ==
    /\ inv = [r \in Runs |-> [k \in PageIdx |-> IdleInv]]
    /\ pages = [r \in Runs |-> <<>>]
    /\ api = [r \in Runs |-> [pc |-> "idle", arg |-> Nil, err |-> FALSE, out |-> FALSE]]
    /\ cancelled = FALSE

InitCaller ==
    /\ hsd = [pc |-> "idle", arg |-> Nil, posts |-> 0, err |-> FALSE, out |-> FALSE]
    /\ rd = [state |-> "reading", got |-> <<>>]

NoDet ==
    /\ ids = <<>>
    /\ det = [pc |-> "off", run |-> "group", tags |-> <<>>, groupIDs |-> <<>>,
              err |-> FALSE, closed |-> FALSE]
    /\ units = {}
    /\ seen = {}
    /\ emitted = [r \in Runs |-> [key \in Keys |-> 0]]
    /\ dret = [pc |-> "off", err |-> FALSE]

NoFn ==
    /\ pin = <<>>
    /\ pout = [done |-> TRUE, tags |-> <<>>, groupIDs |-> <<>>]
    /\ sin = [StatusVal |-> <<>>, Type |-> info]
    /\ sout = [done |-> TRUE, v |-> Raw(<<>>)]

NoPush ==
    push = [hosts |-> <<>>, dead |-> <<>>, h |-> 1, d |-> 1, pc |-> "off",
            ret |-> FALSE, sent |-> <<>>]

NoKB ==
    kb = [pc |-> "off", n |-> 0, index |-> 0, count |-> 0, pending |-> 0, buf |-> 0,
          closed |-> FALSE, late |-> FALSE]

NoScan ==
    sr = [pc |-> "off", payload |-> "", total |-> 0, inner |-> 0, innerClosed |-> FALSE,
          fwd |-> 0, closed |-> FALSE, needToClose |-> FALSE, dpc |-> "off",
          dleft |-> 0, dcloses |-> 0]

NoScans ==
    sc = [pc |-> "off", queue |-> <<>>, seen |-> {}, held |-> NoScanHeld, hist |-> <<>>,
          out |-> <<>>, closed |-> FALSE]

NoRest == NoKB /\ NoScan /\ NoScans

NoEngine ==
    /\ svc = [hosts |-> {}, limit |-> 0, depth |-> 0]
    /\ InitEngine
    /\ InitCaller

\* the pagination engine called through its entry points by a direct consumer
Init ==
    /\ svc = [hosts |-> PlainHosts, limit |-> MaxHosts, depth |-> MaxPages]
    /\ InitEngine
    /\ InitCaller
    /\ NoDet /\ NoFn /\ NoPush /\ NoRest

Next ==
    \/ CallGetHostDetections
    \/ CallGetTagDetections
    \/ CallGetHostSpecificDetections
    \/ \E r \in Runs : CallerReturn(r)
    \/ \E r \in Runs, k \in PageIdx : Post(r, k)
    \/ \E r \in Runs, k \in FwdIdx : FwdCall(r, k)
    \/ \E r \in Runs, k \in FwdIdx : FwdRet(r, k)
    \/ \E r \in Runs, k \in FwdIdx : FwdRecv(r, k)
    \/ \E r \in Runs, k \in FwdIdx : FwdEnd(r, k)
    \/ \E r \in Runs, k \in PageIdx : Close(r, k)
    \/ \E r \in Runs : ReaderRecv(r)
    \/ \E r \in Runs : ReaderEnd(r)
    \/ ReaderStop
    \/ Cancel

Spec == Init /\ [][Next]_vars

\* one call of Detections, with the pagination engine behind it
InitDet ==
    /\ svc = [hosts |-> DetHosts, limit |-> DetMaxHosts, depth |-> DetMaxPages]
    /\ InitEngine
    /\ InitCaller
    /\ ids \in DetIdLists
    /\ det = [pc |-> "partition", run |-> "group", tags |-> <<>>, groupIDs |-> <<>>,
              err |-> FALSE, closed |-> FALSE]
    /\ units = {}
    /\ seen = {}
    /\ emitted = [r \in Runs |-> [key \in Keys |-> 0]]
    /\ dret = [pc |-> "pending", err |-> FALSE]
    /\ NoFn /\ NoPush /\ NoRest

\* the steps of the goroutines of Detections and of the pagination behind it
DetSteps ==
    \/ DetPartition
    \/ DetBegin
    \/ DetRet
    \/ DetRecv
    \/ DetEnd
    \/ DetCancelled
    \/ DetWait
    \/ DetClose
    \/ DetReturn
    \/ \E u \in units : UnitTest(u)
    \/ \E u \in units : UnitEmit(u)
    \/ \E u \in units : UnitCancelled(u)
    \/ \E r \in Runs, k \in PageIdx : Post(r, k)
    \/ \E r \in Runs, k \in FwdIdx : FwdCall(r, k)
    \/ \E r \in Runs, k \in FwdIdx : FwdRet(r, k)
    \/ \E r \in Runs, k \in FwdIdx : FwdRecv(r, k)
    \/ \E r \in Runs, k \in FwdIdx : FwdEnd(r, k)
    \/ \E r \in Runs, k \in PageIdx : Close(r, k)

NextDet == DetSteps \/ Cancel

SpecDet == InitDet /\ [][NextDet]_vars

\* Detections with per-host units that may fault.  Every goroutine that can
\* take a step is eventually scheduled; cancellation is up to the caller.
NextFault == NextDet \/ \E u \in units : UnitPanic(u)

\* Detections called with the identifiers of one sub-pipeline
InitFault == InitDet /\ Len(ids) = 1

SpecFault == InitFault /\ [][NextFault]_vars /\ WF_vars(DetSteps)

\* the selector partition applied to an identifier list
InitPartition ==
    /\ NoEngine /\ NoDet /\ NoPush /\ NoRest
    /\ pin \in SeqsOf(IdPool, 0, MaxIds)
    /\ pout = [done |-> FALSE, tags |-> <<>>, groupIDs |-> <<>>]
    /\ sin = [StatusVal |-> <<>>, Type |-> info]
    /\ sout = [done |-> TRUE, v |-> Raw(<<>>)]

SpecPartition == InitPartition /\ [][SplitIds]_vars

\* Status() called on a finding
InitStatus ==
    /\ NoEngine /\ NoDet /\ NoPush /\ NoRest
    /\ pin = <<>>
    /\ pout = [done |-> TRUE, tags |-> <<>>, groupIDs |-> <<>>]
    /\ sin \in [StatusVal : RawStatuses, Type : Kinds]
    /\ sout = [done |-> FALSE, v |-> Raw(<<>>)]

SpecStatus == InitStatus /\ [][CallStatus]_vars

\* pushDetectionsOnChannel called on an output and a dead-host proof map
InitPush ==
    /\ NoEngine /\ NoDet /\ NoFn /\ NoRest
    /\ \E hs \in SeqsOf(PushHostPool, 0, PushMaxHosts), dead \in DeadMaps :
         push = [hosts |-> hs, dead |-> dead, h |-> 1, d |-> 1, pc |-> "run",
                 ret |-> FALSE, sent |-> <<>>]

NextPush == PushSend \/ PushCancelled \/ PushReturn \/ Cancel

SpecPush == InitPush /\ [][NextPush]_vars

\* one call of KnowledgeBase
InitKB ==
    /\ NoEngine /\ NoDet /\ NoFn /\ NoPush /\ NoScan /\ NoScans
    /\ kb = [pc |-> "load", n |-> 0, index |-> 0, count |-> 0, pending |-> 0, buf |-> 0,
             closed |-> FALSE, late |-> FALSE]

NextKB ==
    \/ KBLoad
    \/ KBSelect
    \/ KBSpawn
    \/ KBCancelled
    \/ KBWait
    \/ KBClose
    \/ SenderSend
    \/ SenderCancelled
    \/ SenderLate
    \/ KBRecv
    \/ Cancel

SpecKB == InitKB /\ [][NextKB]_vars

\* one call of ScanResults: var needToClose = true
InitScan ==
    /\ NoEngine /\ NoDet /\ NoFn /\ NoPush /\ NoKB /\ NoScans
    /\ \E p \in Payloads :
         sr = [pc |-> "start", payload |-> p, total |-> 0, inner |-> 0,
               innerClosed |-> FALSE, fwd |-> 0, closed |-> FALSE,
               needToClose |-> TRUE, dpc |-> "off", dleft |-> 0, dcloses |-> 0]

\* the steps of the goroutines of ScanResults and of the stream it reads
ScanSteps ==
    \/ ScanStart
    \/ InnerClose
    \/ ScanRecv
    \/ ScanSend
    \/ ScanRecvClosed
    \/ ScanLoopAgain
    \/ ScanCancelled
    \/ ScanClose
    \/ ScanPushed
    \/ DeadSend
    \/ DeadCancelled
    \/ DeadEnd
    \/ PushSend
    \/ PushCancelled
    \/ PushReturn

NextScan == ScanSteps \/ Cancel

\* every goroutine that can take a step is eventually scheduled; cancellation
\* is up to the caller
SpecScan == InitScan /\ [][NextScan]_vars /\ WF_vars(ScanSteps)

\* one call of Scans on a channel that delivers the payloads and is closed
InitScans ==
    /\ NoEngine /\ NoDet /\ NoFn /\ NoPush /\ NoKB /\ NoScan
    /\ \E q \in SeqsOf(ScansPayloads, 0, ScansMaxPayloads) :
         sc = [pc |-> "loop", queue |-> q, seen |-> {}, held |-> NoScanHeld,
               hist |-> <<>>, out |-> <<>>, closed |-> FALSE]

NextScans ==
    \/ ScansHandle
    \/ ScansSend
    \/ ScansCancelled
    \/ ScansEnd
    \/ ScansClose
    \/ Cancel

SpecScans == InitScans /\ [][NextScans]_vars

(***************************************************************************)
(* Properties of the pagination engine and its entry points (Spec).        *)
(***************************************************************************)
Fetched(r, k) == inv[r][k].g \notin {"none", "post"}
AllOk(r) == \A n \in 1..Len(pages[r]) : pages[r][n].ok
AllRecords(r) == UNION {{<<n - 1, i>> : i \in 1..pages[r][n].n} : n \in 1..Len(pages[r])}
Copies(s) == Cardinality({j \in 1..Len(rd.got) : <<rd.got[j].page, rd.got[j].idx>> = s})

C3_FirstFetchError ==
    \A r \in Runs :
        (api[r].pc = "returned" /\ api[r].out /\ Len(pages[r]) >= 1 /\ ~pages[r][1].ok) =>
            /\ api[r].err
            /\ rd.got = <<>>

\* C6: an entry point called with a nil or empty selector list issues no post
\* and returns a non-nil error.
C6_EmptyRejected ==
    /\ \A r \in Runs :
          (api[r].pc = "returned" /\ ~NonEmpty(api[r].arg)) =>
              (api[r].err /\ pages[r] = <<>> /\ inv[r][0].g = "none")
    /\ (hsd.pc = "returned" /\ ~NonEmpty(hsd.arg)) => (hsd.err /\ hsd.posts = 0)

\* C10: every invocation posts exactly once; page k+1 is fetched only after a
\* page k that carried a continuation, and by the time the channel of page k is
\* closed it has been fetched if page k carried one, whatever the number of
\* records of page k; after a page without continuation nothing more is
\* fetched, and a single-page run delivers exactly that page's records.
C10_Continuation ==
    \A r \in Runs :
        /\ Len(pages[r]) = Cardinality({k \in PageIdx : Fetched(r, k)})
        /\ \A k \in PageIdx : Fetched(r, k) =>
              /\ Len(pages[r]) >= k + 1
              /\ (k > 0) => (pages[r][k].ok /\ pages[r][k].warning)
              /\ (inv[r][k].closed /\ pages[r][k + 1].ok /\ pages[r][k + 1].warning)
                    => Len(pages[r]) >= k + 2
              /\ (pages[r][k + 1].ok /\ ~pages[r][k + 1].warning)
                    => Len(pages[r]) = k + 1
        /\ (Readable(r) /\ rd.state = "closed" /\ pages[r][1].ok /\ ~pages[r][1].warning)
              => /\ Len(rd.got) = pages[r][1].n
                 /\ \A j \in 1..Len(rd.got) : rd.got[j].page = 0 /\ rd.got[j].idx = j

\* an empty page that carried a continuation was followed, and the stream of a
\* later page without continuation was read to its end
C10_Witness ==
    \E r \in Runs :
        /\ Len(pages[r]) >= 2
        /\ pages[r][1].ok /\ pages[r][1].n = 0 /\ pages[r][1].warning
        /\ pages[r][2].ok /\ ~pages[r][2].warning /\ pages[r][2].n > 0
        /\ inv[r][0].closed
        /\ rd.state = "closed"

(***************************************************************************)
(* Properties of Detections (SpecDet).                                     *)
(***************************************************************************)
RECURSIVE SumOver(_, _)
SumOver(f, S) == IF S = {} THEN 0 ELSE LET x == CHOOSE y \in S : TRUE
                                       IN  f[x] + SumOver(f, S \ {x})
Events(r) == SumOver(emitted[r], Keys)

\* C2: within one sub-pipeline run no two events with the same (device,
\* vulnerability) key are emitted, under every interleaving of its units.
C2_NoDuplicateKey ==
    \A r \in Runs, key \in Keys : emitted[r][key] <= 1

\* two units of one run have run to their end without cancellation, each with a
\* finding, and only one event came out: the second occurrence was dropped
C2_Witness ==
    \E r \in Runs :
        /\ ~cancelled
        /\ Cardinality({u \in units : u.run = r /\ u.pc = "done"}) >= 2
        /\ Events(r) = 1

\* C4: once the context is cancelled no post is issued, no entry point is
\* called and no per-host unit is scheduled.
C4_CancellationStopsWork ==
    [][cancelled =>
          /\ \A r \in Runs : Len(pages'[r]) = Len(pages[r])
          /\ \A r \in Runs : api[r].pc = "idle" => api'[r].pc = "idle"
          /\ Cardinality(units') = Cardinality(units)]_vars

\* the goroutines of the pagination of run r have all ended
EngineDone(r) ==
    \A k \in PageIdx : inv[r][k].g \in {"none", "done"} /\ inv[r][k].f \in {"none", "done"}

\* some goroutine of the pagination of run r can take a step
EngineStep(r) ==
    \/ \E k \in PageIdx : Post(r, k) \/ Close(r, k)
    \/ \E k \in FwdIdx : FwdCall(r, k) \/ FwdRet(r, k) \/ FwdRecv(r, k) \/ FwdEnd(r, k)

\* Detections has left the receive loop of run r for good, in a run whose
\* first page announced more pages
LoopLeft(r) ==
    /\ api[r].pc = "returned" /\ api[r].out /\ ~api[r].err
    /\ Len(pages[r]) >= 1 /\ pages[r][1].ok /\ pages[r][1].warning
    /\ \/ det.run = r /\ det.pc \in {"wait", "close", "done"}
       \/ r = "group" /\ det.run = "tag"

\* C5: when the context was cancelled and the consumer has stopped reading,
\* no goroutine of the pagination is left blocked for ever: each has ended or
\* one of them can still take a step.
C5_NoLeak ==
    \A r \in Runs : (cancelled /\ LoopLeft(r)) => (EngineDone(r) \/ ENABLED EngineStep(r))

(***************************************************************************)
(* Properties of the selector partition, Status() and the expander.        *)
(***************************************************************************)
HasPrefix(s, p) == Len(s) >= Len(p) /\ SubSeq(s, 1, Len(p)) = p
IsTagStyle(id) == HasPrefix(id, tagPrefix)
IsGroupStyle(id) == ~HasPrefix(id, tagPrefix)
Stripped(list) == [i \in 1..Len(list) |-> SubSeq(list[i], Len(tagPrefix) + 1, Len(list[i]))]

\* C7: an identifier goes to the tag list, without the prefix, exactly when it
\* starts with "tag-"; every other identifier goes unchanged to the group
\* list; both lists keep the order of the input.
C7_PrefixPartition ==
    pout.done =>
        /\ pout.groupIDs = SelectSeq(pin, IsGroupStyle)
        /\ pout.tags = Stripped(SelectSeq(pin, IsTagStyle))

VulnerableWords ==
    { <<"N", "e", "w">>, <<"N", "E", "W">>,
      <<"n", "e", "w">>, <<"A", "c", "t", "i", "v", "e">>,
      <<"A", "C", "T", "I", "V", "E">>, <<"a", "c", "t", "i", "v", "e">>,
      <<"R", "e", "o", "p", "e", "n", "e", "d">>, <<"R", "E", "O", "P", "E", "N", "E", "D">>,
      <<"r", "e", "o", "p", "e", "n", "e", "d">>, <<"P", "r", "o", "t", "e", "c", "t", "e", "d">>,
      <<"P", "R", "O", "T", "E", "C", "T", "E", "D">>, <<"p", "r", "o", "t", "e", "c", "t", "e", "d">> }
FixedWords ==
    { <<"F", "i", "x", "e", "d">>, <<"F", "I", "X", "E", "D">>, <<"f", "i", "x", "e", "d">> }
HyphenWords ==
    { <<"R", "e", "-", "O", "p", "e", "n", "e", "d">>,
      <<"R", "E", "-", "O", "P", "E", "N", "E", "D">>,
      <<"r", "e", "-", "o", "p", "e", "n", "e", "d">> }

\* C8 as stated: kind INFORMATION_GATHERED gives Informational; otherwise New,
\* Active, Re-Opened and Protected give Vulnerable and Fixed gives Fixed.
C8_StatusAsStated ==
    sout.done =>
        IF sin.Type = info THEN sout.v = Canon(Informational)
        ELSE /\ sin.StatusVal \in { <<"N", "e", "w">>, <<"A", "c", "t", "i", "v", "e">>,
                                   <<"R", "e", "-", "O", "p", "e", "n", "e", "d">>,
                                   <<"P", "r", "o", "t", "e", "c", "t", "e", "d">> }
                   => sout.v = Canon(Vulnerable)
             /\ sin.StatusVal = <<"F", "i", "x", "e", "d">> => sout.v = Canon(Fixed)

\* C8 amended: kind INFORMATION_GATHERED gives Informational; otherwise New,
\* Active, Reopened (no hyphen) and Protected, in any letter case, give
\* Vulnerable and Fixed gives Fixed; the hyphenated Re-Opened is returned as it
\* came.
C8_StatusMapping ==
    sout.done =>
        IF sin.Type = info THEN sout.v = Canon(Informational)
        ELSE /\ sin.StatusVal \in VulnerableWords => sout.v = Canon(Vulnerable)
             /\ sin.StatusVal \in FixedWords => sout.v = Canon(Fixed)
             /\ sin.StatusVal \in HyphenWords => sout.v = Raw(sin.StatusVal)

\* Status() has returned the hyphenated Re-Opened of a vulnerability unchanged
C8_Witness ==
    /\ sout.done
    /\ sin.Type = "VULNERABILITY"
    /\ sin.StatusVal = <<"R", "e", "-", "O", "p", "e", "n", "e", "d">>
    /\ sout.v = Raw(sin.StatusVal)

\* C9: every event of a host whose address is a key of the dead-host proof
\* map has status DeadHost and the mapped proof; for a host that is not in the
\* map a raw status "Fixed" becomes the canonical Fixed.
C9_DeadHostOverride ==
    \A n \in 1..Len(push.sent) :
        LET e == push.sent[n]
        IN  IF e.ip \in DOMAIN push.dead
            THEN e.status = DeadHost /\ e.proof = push.dead[e.ip]
            ELSE push.hosts[e.hi].dets[e.qid] = "Fixed" => e.status = Fixed

(***************************************************************************)
(* Properties of the fan-out of Detections (SpecDet).                      *)
(***************************************************************************)
\* the per-host goroutine u has not yet run its deferred wg.Done()
Running(u) == u.pc \in {"test", "emit"}

\* C11: out is closed by the deferred close of the Detections goroutine and by
\* nothing else, once; when it is closed every per-host unit that was scheduled
\* has completed, whether the receive loop was left at the end of the stream or
\* on cancellation, so that no unit can send on the closed channel.
C11_JoinBeforeClose ==
    /\ [](det.closed => (det.pc = "done" /\ \A u \in units : ~Running(u)))
    /\ [](det.pc = "done" => det.closed)
    /\ [][(det'.closed /\ ~det.closed) => det.pc = "close"]_vars
    /\ [][det.closed => (det' = det /\ units' = units)]_vars

\* out was closed after the receive loop of a run was left on cancellation,
\* with the stream of that run still open and a unit of that run scheduled
C11_Witness ==
    /\ det.closed
    /\ cancelled
    /\ \E r \in Runs :
          /\ api[r].pc = "returned" /\ ~api[r].err
          /\ ~inv[r][0].closed
          /\ \E u \in units : u.run = r

\* C12: when a per-host unit panics it still counts as completed for the wait
\* group, so out is eventually closed; and when out is closed without
\* cancellation, every run in which some unit ran to its end has emitted
\* events, whatever units of that run panicked.
C12_FaultIsolation ==
    /\ [](\A r \in Runs :
            (det.closed /\ ~cancelled /\ \E u \in units : u.run = r /\ u.pc = "done")
                => Events(r) >= 1)
    /\ []((det.pc = "wait" /\ \A u \in units : u.run = det.run => ~Running(u))
                => WgWait(det.run))
    /\ <>det.closed

\* out is closed, without cancellation, after a run in which one unit panicked
\* and another one ran to its end and emitted its event
C12_Witness ==
    /\ det.closed
    /\ ~cancelled
    /\ \E r \in Runs :
          /\ \E u \in units : u.run = r /\ u.pc = "panicked"
          /\ \E u \in units : u.run = r /\ u.pc = "done"
          /\ Events(r) >= 1

\* the first fetch of sub-pipeline r failed: its pagination produced no record
FirstFetchFailed(r) == Len(pages[r]) >= 1 /\ ~pages[r][1].ok

\* C13: once Detections has returned and its goroutine has ended, the error it
\* returned is non-nil exactly when the first fetch of one of its
\* sub-pipelines failed.
C13_ErrorIff ==
    (dret.pc = "returned" /\ det.pc = "done") =>
        (dret.err <=> \E r \in Runs : FirstFetchFailed(r))

\* records of the pages of run r fetched so far
HostsFetched(r) ==
    SumOver([n \in 1..Len(pages[r]) |-> IF pages[r][n].ok THEN pages[r][n].n ELSE 0],
            1..Len(pages[r]))

\* C14: when group IDs and tags are given and the first fetch of the group
\* sub-pipeline failed, the tag sub-pipeline has been run by the time the
\* goroutine ends: GetTagDetections was called and, without cancellation, its
\* pages were fetched and, when they held records, events of the tag run were
\* emitted.  An event once emitted is never taken back.
C14_SiblingIsolation ==
    /\ []((/\ det.pc = "done"
           /\ Len(det.groupIDs) > 0 /\ Len(det.tags) > 0
           /\ FirstFetchFailed("group"))
          => /\ api["tag"].pc = "returned"
             /\ ~cancelled => Len(pages["tag"]) >= 1
             /\ (~cancelled /\ AllOk("tag") /\ HostsFetched("tag") >= 1)
                    => Events("tag") >= 1)
    /\ [][\A r \in Runs, key \in Keys : emitted'[r][key] >= emitted[r][key]]_vars

\* the group fetch failed and the tag run, fetched without failure, emitted
C14_Witness ==
    /\ det.pc = "done"
    /\ ~cancelled
    /\ FirstFetchFailed("group")
    /\ AllOk("tag")
    /\ Events("tag") >= 1

(***************************************************************************)
(* Failure and termination of a pagination run (Spec).                     *)
(***************************************************************************)
\* the fetch of page k of run r failed
FetchFailed(r, k) == Len(pages[r]) >= k + 1 /\ ~pages[r][k + 1].ok

\* the records of the pages of run r before page k
RecordsBefore(r, k) == UNION {{<<n - 1, i>> : i \in 1..pages[r][n].n} : n \in 1..k}

\* C15: when the fetch of a page k >= 1 failed, no later page is fetched and no
\* record of page k or later is delivered; and when the consumer, who got a nil
\* error and reads until the channel is closed, has seen it closed, it holds
\* every record of pages 0..k-1 exactly once.
C15_MidStreamFailure ==
    \A r \in Runs, k \in 1..(svc.depth - 1) :
        FetchFailed(r, k) =>
            /\ Len(pages[r]) = k + 1
            /\ \A j \in 1..Len(rd.got) : rd.got[j].page < k
            /\ (Readable(r) /\ rd.state = "closed")
                  => \A s \in RecordsBefore(r, k) : Copies(s) = 1

\* invocation k of run r was made: its page goroutine was started
Invoked(r, k) == inv[r][k].g # "none"

\* C16: when the channel of invocation k is closed, its page goroutine and its
\* forwarder have ended, every descendant invocation that was made has closed
\* its channel too, and no forwarder is left holding a record to send on a
\* closed channel.
C16_JoinBeforeClose ==
    \A r \in Runs, k \in PageIdx :
        inv[r][k].closed =>
            /\ inv[r][k].g = "done"
            /\ inv[r][k].f \in {"none", "done"}
            /\ \A m \in PageIdx : (m > k /\ Invoked(r, m)) => inv[r][m].closed

\* C17: each sub-pipeline tests keys against its own map: a key is emitted at
\* most once in the group run and at most once in the tag run, hence at most
\* twice on out; every entry of a map was put there by a unit of its own run;
\* and a tag run whose units ran to their end without cancellation has emitted
\* events whatever keys the group run had emitted before.
C17_IndependentSeenSets ==
    /\ \A key \in Keys :
          /\ emitted["group"][key] <= 1
          /\ emitted["tag"][key] <= 1
          /\ emitted["group"][key] + emitted["tag"][key] <= 2
    /\ \A e \in seen : \E u \in units : u.map = e[1] /\ u.run = e[1][1]
    /\ (det.closed /\ ~cancelled /\ \E u \in units : u.run = "tag")
          => Events("tag") >= 1

\* one key was emitted by the group run and again by the tag run
C17_Witness ==
    \E key \in Keys : emitted["group"][key] = 1 /\ emitted["tag"][key] = 1

(***************************************************************************)
(* Properties of pushDetectionsOnChannel (SpecPush).                       *)
(***************************************************************************)
\* the findings of the hosts from number h on, as <<host number, finding
\* number>>, host after host and in the order of each host's list
RECURSIVE FindingsFrom(_, _)
FindingsFrom(hosts, h) ==
    IF h > Len(hosts) THEN <<>>
    ELSE [j \in 1..Len(hosts[h].dets) |-> <<h, j>>] \o FindingsFrom(hosts, h + 1)

\* the findings the events sent so far were made from
SentFindings == [n \in 1..Len(push.sent) |-> <<push.sent[n].hi, push.sent[n].qid>>]

\* C18: the events sent so far are, one per finding and in order, a prefix of
\* the findings of the output; the call returns true only after it observed
\* cancellation with an event still to send, and false only after the event of
\* the last finding was sent.
C18_OrderAndResult ==
    LET all == FindingsFrom(push.hosts, 1)
    IN  /\ Len(SentFindings) <= Len(all)
        /\ SentFindings = SubSeq(all, 1, Len(SentFindings))
        /\ push.pc = "returned" =>
              IF push.ret THEN cancelled /\ Len(SentFindings) < Len(all)
              ELSE SentFindings = all

\* the call returned true after it had sent the events of a first host and
\* before it had sent those of a second one
C18_Witness ==
    /\ push.pc = "returned"
    /\ push.ret
    /\ Len(push.hosts) = 2
    /\ Len(push.hosts[1].dets) = 2
    /\ Len(push.sent) = 2
    /\ Len(push.hosts[2].dets) >= 1

\* C22: GetTagDetections is issued only after the group-ID sub-pipeline has
\* ended, that is after its dispatch loop has returned and every per-host
\* unit of the group run has completed; hence a group-derived event is only
\* emitted while the tag fetch is not yet issued and no tag-derived event
\* exists.
C22_GroupBeforeTag ==
    /\ [](api["tag"].pc # "idle" =>
             /\ det.run = "tag"
             /\ \A u \in units : u.run = "group" => ~Running(u))
    /\ [][Events("group")' # Events("group") =>
             api["tag"].pc = "idle" /\ Events("tag") = 0]_vars

\* both sub-pipelines ran and each emitted an event
C22_Witness ==
    /\ Events("group") >= 1
    /\ Events("tag") >= 1
    /\ \E u \in units : u.run = "group" /\ u.pc = "done"
    /\ \E u \in units : u.run = "tag"

(***************************************************************************)
(* Properties of KnowledgeBase (SpecKB).                                   *)
(***************************************************************************)
\* C19: no sender goroutine executes a send on out after out was closed, and
\* when out is closed no sender is left that could still attempt one.
C19_NoSendAfterClose ==
    /\ ~kb.late
    /\ kb.closed => kb.pending = 0

\* C24: at every moment at most 50 sender goroutines spawned by
\* KnowledgeBase are outstanding (spawned, their deferred wg.Done() not yet
\* run), whatever the number of vulnerabilities loaded.
C24_BatchBound == kb.pending <= BatchSize

\* the bound is met: in the second batch the sender spawned after the wait and
\* the forty-nine that follow it are all outstanding
C24_Witness ==
    /\ kb.pending = BatchSize
    /\ kb.count = 2 * BatchSize - 1
    /\ kb.n > 2 * BatchSize

(***************************************************************************)
(* Properties of ScanResults (SpecScan).                                   *)
(***************************************************************************)
\* C20: for a scheduled scan with group IDs, out is closed without
\* cancellation only after every event of the inner stream was forwarded, and
\* once the inner stream is closed the goroutine leaves the forwarding loop
\* and closes out, whether or not the context is ever cancelled.
C20_ForwardAndClose ==
    /\ []((sr.closed /\ ~cancelled) => sr.fwd = sr.total)
    /\ (sr.pc = "loop" /\ sr.innerClosed) ~> (sr.closed \/ cancelled)

\* C21: deadIPToProof is closed exactly once on every path (malformed
\* payload, scheduled scan, missing scan ID, failed lookup, success): never
\* by both the deferred close and the dead-host goroutine, and never by
\* neither, so that once the goroutines are through, and in any case unless
\* the context is cancelled first, the channel has been closed.
C21_DeadChannelClosedOnce ==
    /\ [](sr.dcloses <= 1)
    /\ []((sr.pc = "done" /\ sr.dpc # "run") => sr.dcloses = 1)
    /\ <>(sr.dcloses = 1 \/ cancelled)

(***************************************************************************)
(* Properties of Scans (SpecScans).                                        *)
(***************************************************************************)
\* payload number i was received from out, or is being offered on it
Emitted(i) == \E n \in 1..Len(sc.out) : sc.out[n].index = i
Offered(i) == sc.pc = "send" /\ sc.held.index = i

\* the names of the payloads before number i that carried a scan ID or for
\* which both lookups succeeded
NamesSeenBefore(i) ==
    {sc.hist[j].p.name : j \in {k \in 1..(i - 1) :
        sc.hist[k].p.ok /\ (sc.hist[k].p.id \/ sc.hist[k].looked = "ok")}}

\* a payload without a scan ID: the lookup is made only for a non-empty name
\* not yet seen; it is emitted only when both lookups succeeded, then with
\* Scheduled set and the scan ID filled in, and at most once per name; a
\* payload that does not decode is never emitted
LookupRule ==
    /\ \A i \in 1..Len(sc.hist) :
         LET e == sc.hist[i]
         IN  /\ e.looked # "no" <=>
                  (e.p.ok /\ ~e.p.id /\ e.p.name # "" /\ e.p.name \notin NamesSeenBefore(i))
             /\ (~e.p.id /\ (Emitted(i) \/ Offered(i))) => e.looked = "ok"
    /\ \A n \in 1..Len(sc.out) :
         LET o == sc.out[n]
         IN  /\ o.name = sc.hist[o.index].p.name
             /\ o.scheduled <=> ~sc.hist[o.index].p.id
             /\ o.scheduled => o.id = "reference"
             /\ \A m \in 1..Len(sc.out) :
                  (m # n /\ sc.out[m].scheduled /\ o.scheduled) => sc.out[m].name # o.name
             /\ \A m \in 1..Len(sc.out) : m # n => sc.out[m].index # o.index

\* the names marked in seen are those of the payloads with a scan ID and of
\* the successful lookups: a failed lookup marks nothing
SeenRule == sc.seen = NamesSeenBefore(Len(sc.hist) + 1)

\* C23 as stated: a payload with a non-empty scan ID is always emitted and
\* marks its name as seen; a payload with an empty scan ID triggers a lookup
\* only if its name is non-empty and not yet seen and is emitted at most once
\* per name and only when both lookups succeed; a failed lookup does not mark
\* the name as seen.
C23_AsStated ==
    /\ \A i \in 1..Len(sc.hist) :
         (sc.hist[i].p.ok /\ sc.hist[i].p.id) =>
            /\ sc.hist[i].p.name \in sc.seen
            /\ Emitted(i) \/ Offered(i)
    /\ LookupRule
    /\ SeenRule

\* C23, amended: a payload with a non-empty scan ID marks its name as seen
\* and is emitted unless the goroutine returned on ctx.Done() while offering
\* it, which can only happen to the last payload taken; the rules on payloads
\* with an empty scan ID and on the names marked are as stated.
C23_NameDeduplication ==
    /\ \A i \in 1..Len(sc.hist) :
         (sc.hist[i].p.ok /\ sc.hist[i].p.id) =>
            /\ sc.hist[i].p.name \in sc.seen
            /\ \/ Emitted(i) \/ Offered(i)
               \/ cancelled /\ sc.pc \in {"close", "done"} /\ i = Len(sc.hist)
    /\ LookupRule
    /\ SeenRule

\* a lookup failed for a name, a later one for the same name succeeded and its
\* scan was emitted, and a third payload of that name was taken without a
\* lookup; a payload with a scan ID was emitted as well
C23_Witness ==
    /\ Len(sc.hist) = ScansMaxPayloads
    /\ \E i, j, k \in 1..Len(sc.hist) :
         /\ i < j /\ j < k
         /\ sc.hist[i].looked \in {"error", "tags error"}
         /\ sc.hist[j].looked = "ok"
         /\ sc.hist[k].looked = "no" /\ sc.hist[k].p.ok /\ ~sc.hist[k].p.id
         /\ sc.hist[i].p.name = sc.hist[j].p.name
         /\ sc.hist[j].p.name = sc.hist[k].p.name
         /\ Emitted(j)
    /\ \E l \in 1..Len(sc.hist) : sc.hist[l].p.id /\ Emitted(l)
    /\ sc.closed

====
